---- MODULE Spec2Model ----
(***************************************************************************)
(* Incremental, resumable, rate-limited retrieval engine of kraken-trading *)
(* (src/src/api): KrakenAPIClient.get_trade_history, get_staking_rewards,  *)
(* _make_request_with_backoff, extract_record_timestamps, and the mongodb  *)
(* persistence of data_handler / mongodb_client, as one state machine.     *)
(*                                                                         *)
(* Times are kept in tenths of a second so that int() truncation is        *)
(* visible: a record time of 15 is 1.5 s and int() gives 1.                *)
(***************************************************************************)
EXTENDS Integers, Sequences, FiniteSets, TLC

\* ----------------------------------------------------------------- bounds
\* Total number of records the upstream ever lists.
MaxUpstream == 4
\* Records per upstream page; stands for the 50 of api_client.py:137/207.
PageSize == 3
\* Sync runs per behaviour.
MaxRuns == 2
\* Records that are not plain: the time field is absent or a floating-point
\* string, or (rewards) the ledger entry is not of type staking.
MaxOdd == 1
\* Store errors (insert_one raising PyMongoError) explored per behaviour.
MaxFaults == 2

\* Record ids and records per batch when the accumulator is driven by arbitrary
\* batches.
MaxAccIds == 3
MaxBatchLen == 2

\* ------------------------------------------------------ program constants
None == -1
max_retries == 5
initial_backoff == 2

\* No store_data call was made yet.
NoCall == [n |-> 0, name |-> "none", empty |-> FALSE, duplicate |-> FALSE,
           fault |-> "none"]

\* Kinds of the `time` field of an upstream record:
\*   "num"  a JSON number (int or float), "fstr" a floating-point string,
\*   "none" the key is absent.
TimeKinds == {"num", "fstr", "none"}
\* Time advance (tenths of a second) between two consecutive records.
TimeSteps == {0, 5}
\* Time (tenths) of the oldest record.
FirstTimes == {15}

VARIABLES
    dtype,                \* "trades" | "rewards": the record type of the runs
    upstream,             \* the exchange's history, newest first
    metadata_collection,  \* kraken_metadata, in insertion order
    records_collection,   \* kraken_trades / kraken_rewards, in insertion order
    run,                  \* number of sync runs started
    pc,                   \* position of the running sync
    stop_at_trade_id,     \* get_trade_history local
    min_timestamp,        \* get_staking_rewards local
    all_records,          \* all_trades / all_rewards: dict id -> record
    seen_ids,             \* seen_trade_ids / seen_ids
    offset,
    batch,
    latest_trade_id,
    first_batch_processed,
    total_expected,
    stop_encountered,
    new_added,            \* new_trades_added / new_rewards_added of the last batch
    attempt,              \* _make_request_with_backoff: loop variable
    backoff,              \* _make_request_with_backoff: next delay
    sleeps,               \* delays slept by the current backoff call
    response,             \* what _make_request_with_backoff returned
    throttles,            \* number of 2.5 s throttle pauses of the session
    ret_records,          \* returned records (dict, in insertion order)
    ret_metadata,         \* returned metadata: {} (empty dict) or {doc}
    prev_records,         \* all_records before the last batch was processed
    offered,              \* ids the batches of the session offered for accumulation
    repeats,              \* offers of the session whose id had been seen already
    calls,                \* _make_request calls made by the current backoff call
    last_raw,             \* what the last _make_request call returned
    requests,             \* _make_request_with_backoff calls the session started
    backed_off,           \* a finished backoff call of the session slept a delay
    store_reached,        \* INIT of the session got an answer from the metadata store
    manual_jobs,          \* Jobs created through /trigger-sync and not yet finished
    trigger_status,       \* HTTP status of the last /trigger-sync call, or None
    save_pos,             \* records the save loop has passed to store_data
    stored,               \* what the last store_data call returned
    metadata_inserts,     \* store_data("metadata", ...) calls of the save loop
    metadata_stored,      \* the metadata dict, with its _id, is in kraken_metadata
    store_call,           \* the last store_data call: its rank and its case
    mongodb_client,       \* the store client of the process: "client", or "none" when unset
    store_faults,         \* how many insert_one calls of the behaviour raised a store error
    cut_short             \* some persisted run ended on an absent/malformed response

vars == <<dtype, upstream, metadata_collection, records_collection, run, pc,
          stop_at_trade_id, min_timestamp, all_records, seen_ids, offset, batch,
          latest_trade_id, first_batch_processed, total_expected,
          stop_encountered, new_added, attempt, backoff, sleeps, response,
          throttles, ret_records, ret_metadata, prev_records, offered, repeats,
          calls, last_raw, requests, backed_off, store_reached, manual_jobs,
          trigger_status,
          save_pos, stored, metadata_inserts, metadata_stored, store_call,
          mongodb_client, store_faults,
          cut_short>>

saving == <<save_pos, stored, metadata_inserts, metadata_stored, store_call>>

caller == <<mongodb_client>>

session == <<stop_at_trade_id, min_timestamp, all_records, seen_ids, offset, batch,
             latest_trade_id, first_batch_processed, total_expected,
             stop_encountered, new_added, attempt, backoff, sleeps, response,
             throttles, prev_records, offered, repeats, calls, last_raw, requests,
             backed_off, store_reached>>

\* ---------------------------------------------------------------- helpers
Range(s) == {s[i] : i \in 1..Len(s)}
Ids(s) == {s[i].id : i \in 1..Len(s)}
MinOf(S) == CHOOSE x \in S : \A y \in S : x <= y
MaxOf(S) == CHOOSE x \in S : \A y \in S : x >= y
Odd(s) == {i \in 1..Len(s) : s[i].tk # "num" \/ s[i].type = "other"}

\* ------------------------------------------------------------- time field
\* `timestamp_key in record`
HasTime(r) == r.tk # "none"
\* int(record["time"]) raises ValueError on a floating-point string.
IntRaises(r) == r.tk = "fstr"
\* int(record["time"]) of a number: truncation.
IntOf(r) == r.time \div 10
\* `timestamp <= min_timestamp` raises TypeError when timestamp is None or a str.
CompareRaises(r) == r.tk # "num"
\* Variant: `timestamp < min_timestamp`.
NotAfterStrict(r, w) == r.time < w * 10
\* `timestamp <= min_timestamp`, min_timestamp in whole seconds.
NotAfter(r, w) == r.time <= w * 10

\* --------------------------------------------------------------- upstream
\* One page of the history: the records at positions ofs+1 .. ofs+PageSize.
Min2(a, b) == IF a <= b THEN a ELSE b
PageOf(hist, ofs) == SubSeq(hist, ofs + 1, Min2(ofs + PageSize, Len(hist)))

ErrorStrings == {"EAPI:Rate limit exceeded", "EGeneral:Internal error"}
\* e.lower()
Lower(e) == CASE e = "EAPI:Rate limit exceeded" -> "eapi:rate limit exceeded"
              [] e = "EGeneral:Internal error" -> "egeneral:internal error"
\* "rate limit exceeded" in s
ContainsRateLimit(s) == s \in {"eapi:rate limit exceeded"}

\* What _make_request returns: the parsed body, or {} when it cannot be parsed.
OkResponse(recs, n) == [error |-> {}, result |-> TRUE, records |-> recs, count |-> n]
ErrorResponse(e) == [error |-> {e}, result |-> FALSE, records |-> <<>>, count |-> None]
EmptyResponse == [error |-> {}, result |-> FALSE, records |-> <<>>, count |-> None]
Responses(hist, ofs) ==
    {OkResponse(PageOf(hist, ofs), Len(hist)), EmptyResponse}
        \cup {ErrorResponse(e) : e \in ErrorStrings}

\* ------------------------------------------------ backoff request executor
\* Variant: any error is retried.
IsRateLimitedAnyError(resp) == resp.error # {}
\* error and any("rate limit exceeded" in e.lower() for e in error)
IsRateLimited(resp) ==
    resp.error # {} /\ \E e \in resp.error : ContainsRateLimit(Lower(e))
\* Variant: the delay grows linearly.
NextBackoffLinear(b) == b + 2
\* backoff *= 2
NextBackoff(b) == b * 2
\* for attempt in range(1, max_retries + 1): is this the last iteration?
LastAttempt(a) == a = max_retries

\* One iteration of the loop of _make_request_with_backoff: _make_request returns
\* a response, or requests.request raises (connection error, timeout), which
\* neither _make_request nor the loop catches.
Attempt ==
    /\ pc = "request"
    /\ calls' = calls + 1
    /\ requests' = IF calls = 0 THEN requests + 1 ELSE requests
    /\ \/ \E resp \in Responses(upstream, offset) :
            /\ last_raw' = resp
            /\ IF IsRateLimited(resp)
               THEN /\ sleeps' = Append(sleeps, backoff)
                    /\ backoff' = NextBackoff(backoff)
                    /\ IF LastAttempt(attempt)
                       THEN /\ response' = EmptyResponse
                            /\ pc' = "process"
                            /\ attempt' = attempt
                       ELSE /\ attempt' = attempt + 1
                            /\ UNCHANGED <<response, pc>>
               ELSE /\ response' = resp
                    /\ pc' = "process"
                    /\ UNCHANGED <<attempt, backoff, sleeps>>
       \/ /\ pc' = "raised"
          /\ UNCHANGED <<last_raw, attempt, backoff, sleeps, response>>
    /\ UNCHANGED <<dtype, manual_jobs, trigger_status, saving, caller, store_faults,
                   upstream, metadata_collection, records_collection, run,
                   stop_at_trade_id, min_timestamp, all_records, seen_ids, offset,
                   batch, latest_trade_id, first_batch_processed, total_expected,
                   stop_encountered, new_added, throttles, ret_records,
                   ret_metadata, prev_records, offered, repeats, store_reached,
                   backed_off, cut_short>>

\* ------------------------------------------------------------ environment
Types(dt) == IF dt = "trades" THEN {"trade"} ELSE {"staking", "other"}
NextTimes(hist) ==
    IF hist = <<>> THEN FirstTimes ELSE {hist[1].time + d : d \in TimeSteps}

\* A new record appears at the head of the exchange's history, before a run or
\* between two batch requests of a run.
Arrive ==
    /\ (pc = "idle" /\ run < MaxRuns) \/ (pc = "request" /\ attempt = 1)
    /\ Len(upstream) < MaxUpstream
    /\ \E t \in NextTimes(upstream), k \in TimeKinds, ty \in Types(dtype) :
         LET r == [id |-> Len(upstream) + 1, time |-> t, tk |-> k, type |-> ty]
         IN /\ Cardinality(Odd(<<r>> \o upstream)) <= MaxOdd
            /\ ty = "other" => k = "num"
            /\ upstream' = <<r>> \o upstream
    /\ UNCHANGED <<dtype, manual_jobs, trigger_status, saving, caller, store_faults,
                   metadata_collection, records_collection, run, pc,
                   ret_records, ret_metadata, cut_short>>
    /\ UNCHANGED session

\* ------------------------------------------------------- dedup accumulator
HasKey(d, id) == \E i \in 1..Len(d) : d[i].id = id
\* d[id] = r on a dict kept in insertion order
DictSet(d, r) ==
    IF HasKey(d, r.id)
    THEN [i \in 1..Len(d) |-> IF d[i].id = r.id THEN r ELSE d[i]]
    ELSE Append(d, r)
\* The locals the batch loop updates; `raised` is an exception leaving it.
Scan0(all, seen) ==
    [all |-> all, seen |-> seen, added |-> 0, stop |-> FALSE, raised |-> FALSE]
\* Variant: a later occurrence of an id replaces the record held for it.
AddRecordOverwrite(s, r) ==
    [s EXCEPT !.all = DictSet(@, r), !.seen = @ \cup {r.id},
              !.added = IF r.id \in s.seen THEN @ ELSE @ + 1]
\* Variant: the id is marked seen before it is tested, so nothing is inserted.
AddRecordSeenFirst(s, r) == [s EXCEPT !.seen = @ \cup {r.id}]
\* if id not in seen: all[id] = data; seen.add(id); added += 1
AddRecord(s, r) ==
    IF r.id \notin s.seen
    THEN [s EXCEPT !.all = DictSet(@, r), !.seen = @ \cup {r.id}, !.added = @ + 1]
    ELSE s

\* Variant: the stop identifier is compared after the record was inserted.
RECURSIVE ScanTradesInclusive(_, _, _, _)
ScanTradesInclusive(trades, i, stop_id, s) ==
    IF i > Len(trades) THEN s
    ELSE IF trades[i].id = stop_id THEN [AddRecord(s, trades[i]) EXCEPT !.stop = TRUE]
    ELSE ScanTradesInclusive(trades, i + 1, stop_id, AddRecord(s, trades[i]))

\* for trade_id, trade_data in trades.items(): ... (get_trade_history)
RECURSIVE ScanTrades(_, _, _, _)
ScanTrades(trades, i, stop_id, s) ==
    IF i > Len(trades) THEN s
    ELSE IF trades[i].id = stop_id THEN [s EXCEPT !.stop = TRUE]
    ELSE ScanTrades(trades, i + 1, stop_id, AddRecord(s, trades[i]))

\* Variant: every ledger entry of the page is kept.
EveryEntry(entries) == entries
\* {k: v for k, v in ledger_entries.items() if v.get("type") == "staking"}
StakingOnly(entries) == SelectSeq(entries, LAMBDA e : e.type = "staking")
\* `min_timestamp and ...`: None and 0 are falsy
Truthy(w) == w # None /\ w # 0

\* for entry_id, entry_data in staking_rewards.items(): ... (get_staking_rewards)
RECURSIVE ScanRewards(_, _, _, _)
ScanRewards(entries, i, min_ts, s) ==
    IF i > Len(entries) THEN s
    ELSE IF Truthy(min_ts) /\ CompareRaises(entries[i]) THEN [s EXCEPT !.raised = TRUE]
    ELSE IF Truthy(min_ts) /\ NotAfter(entries[i], min_ts)
         THEN ScanRewards(entries, i + 1, min_ts, s)
    ELSE ScanRewards(entries, i + 1, min_ts, AddRecord(s, entries[i]))

\* ------------------------------------------------------- watermark deriver
\* timestamps = [int(record[key]) for record in records if key in record]
Timed(records) == {r \in Range(records) : HasTime(r)}
ExtractRaises(records) == \E r \in Timed(records) : IntRaises(r)
Timestamps(records) == {IntOf(r) : r \in Timed(records)}
\* Variant: the pair is returned as (max, min).
extract_record_timestamps_swapped(records) ==
    IF records = <<>> THEN <<None, None>>
    ELSE IF Timestamps(records) = {} THEN <<None, None>>
    ELSE <<MaxOf(Timestamps(records)), MinOf(Timestamps(records))>>
\* extract_record_timestamps, when int() does not raise
extract_record_timestamps(records) ==
    IF records = <<>> THEN <<None, None>>
    ELSE IF Timestamps(records) = {} THEN <<None, None>>
    ELSE <<MinOf(Timestamps(records)), MaxOf(Timestamps(records))>>

Metadata(dt, now, range, last) ==
    [data_type |-> dt, timestamp |-> now,
     record_timestamp_start |-> range[1], record_timestamp_end |-> range[2],
     last_trade_id |-> last]

\* --------------------------------------------------------- metadata store
\* find_one({"data_type": dt}, sort=[("record_timestamp_end", -1)]): a document of
\* the type with the greatest record_timestamp_end (null sorts lowest); the store
\* may return any of several documents that tie.
OfType(coll, dt) == {d \in Range(coll) : d.data_type = dt}
get_latest_metadata(coll, dt) ==
    {d \in OfType(coll, dt) :
        \A e \in OfType(coll, dt) : e.record_timestamp_end <= d.record_timestamp_end}
\* Variant: the document replaces what the collection holds.
replace_one(coll, data) == <<data>>
\* store_data: collection.insert_one(data)
insert_one(coll, data) == Append(coll, data)
\* _get_last_trade_id: the values it can return
LastTradeIds(coll) ==
    IF OfType(coll, "trades") = {} THEN {None}
    ELSE {d.last_trade_id : d \in get_latest_metadata(coll, "trades")}
\* _get_min_reward_timestamp: the values it can return
MinRewardTimestamps(coll) ==
    IF OfType(coll, "rewards") = {} THEN {None}
    ELSE {d.record_timestamp_end : d \in get_latest_metadata(coll, "rewards")}

\* ------------------------------------------------------ sync orchestrator
\* Ids a batch offers for accumulation: for trades those listed before the stop
\* identifier, for rewards the staking entries newer than the watermark.
OfferedTrades(trades, stop_id) ==
    {trades[i].id : i \in {k \in 1..Len(trades) :
                              \A j \in 1..k : trades[j].id # stop_id}}
OfferedRewards(entries, min_ts) ==
    {e.id : e \in {x \in Range(entries) :
                      x.type = "staking" /\ ~(Truthy(min_ts) /\ NotAfter(x, min_ts))}}

\* The entries of a page that the for loop of get_staking_rewards has handled
\* when `timestamp <= min_timestamp` raises on a staking entry (line 230).
BeforeRaise(entries, min_ts) ==
    LET raising == {k \in 1..Len(entries) :
                       entries[k].type = "staking" /\ CompareRaises(entries[k])}
        first == CHOOSE k \in raising : \A j \in raising : k <= j
    IN SubSeq(entries, 1, first - 1)
\* Variant: the key of the last record of the batch.
LastKey(trades) == trades[Len(trades)].id
\* next(iter(trades.keys()), None) of a non-empty dict
FirstKey(trades) == trades[1].id
\* not response or "result" not in response or <records key> not in response["result"]
Malformed(resp) == ~resp.result
\* Variant: the break out of the for loop is not followed by one out of the while loop.
TradeLoopNeverBreaks(s) == FALSE
\* if stop_encountered: break
TradeLoopBreaks(s) == s.stop
\* Variant: only a short page ends the reward loop.
RewardLoopBreaksOnShortPage(s, entries) == Len(entries) < PageSize
\* Variant: only a batch without new rewards ends the reward loop.
RewardLoopBreaksOnZeroNew(s, entries) == s.added = 0
\* if new_rewards_added == 0: break / if len(ledger_entries) < batch_size: break
RewardLoopBreaks(s, entries) == s.added = 0 \/ Len(entries) < PageSize

\* Variant: the delay reached by a call is where the next call starts.
CallReturnedKeepsBackoff ==
    /\ attempt' = 1
    /\ backoff' = backoff
    /\ sleeps' = <<>>
    /\ calls' = 0
    /\ last_raw' = EmptyResponse
    /\ backed_off' = (backed_off \/ sleeps # <<>>)

\* The locals of the finished _make_request_with_backoff call are gone.
CallReturned ==
    /\ attempt' = 1
    /\ backoff' = initial_backoff
    /\ sleeps' = <<>>
    /\ calls' = 0
    /\ last_raw' = EmptyResponse
    /\ backed_off' = (backed_off \/ sleeps # <<>>)

\* break: leave the while loop
Break ==
    /\ pc' = "finalize"
    /\ CallReturned
    /\ UNCHANGED <<offset, batch, throttles, response>>

\* Variant: the cursor moves on by two pages.
NextRequestSkipsPage ==
    /\ pc' = "request"
    /\ offset' = offset + 2 * PageSize
    /\ batch' = batch + 1
    /\ throttles' = throttles + 1
    /\ CallReturned
    /\ response' = EmptyResponse

\* Variant: the next request follows without the throttle pause.
NextRequestNoThrottle ==
    /\ pc' = "request"
    /\ offset' = offset + PageSize
    /\ batch' = batch + 1
    /\ throttles' = throttles
    /\ CallReturned
    /\ response' = EmptyResponse

\* offset += 50; batch += 1; time.sleep(2.5)
NextRequest ==
    /\ pc' = "request"
    /\ offset' = offset + PageSize
    /\ batch' = batch + 1
    /\ throttles' = throttles + 1
    /\ CallReturned
    /\ response' = EmptyResponse

\* INIT of get_trade_history (lines 79-93)
StartTrades ==
    /\ pc = "idle" /\ dtype = "trades" /\ run < MaxRuns
    /\ mongodb_client = "client"
    /\ run' = run + 1
    /\ \E last \in LastTradeIds(metadata_collection) : stop_at_trade_id' = last
    /\ store_reached' = TRUE
    /\ pc' = "request"
    /\ UNCHANGED <<dtype, manual_jobs, trigger_status, saving, caller, store_faults,
                   upstream, metadata_collection, records_collection,
                   min_timestamp, all_records, seen_ids, offset, batch,
                   latest_trade_id, first_batch_processed, total_expected,
                   stop_encountered, new_added, attempt, backoff, sleeps, response,
                   throttles, ret_records, ret_metadata, prev_records, offered,
                   repeats, calls, last_raw, requests, backed_off, cut_short>>

\* INIT of get_staking_rewards (lines 203-208)
StartRewards ==
    /\ pc = "idle" /\ dtype = "rewards" /\ run < MaxRuns
    /\ mongodb_client = "client"
    /\ run' = run + 1
    /\ \E w \in MinRewardTimestamps(metadata_collection) : min_timestamp' = w
    /\ store_reached' = TRUE
    /\ pc' = "request"
    /\ UNCHANGED <<dtype, manual_jobs, trigger_status, saving, caller, store_faults,
                   upstream, metadata_collection, records_collection,
                   stop_at_trade_id, all_records, seen_ids, offset, batch,
                   latest_trade_id, first_batch_processed, total_expected,
                   stop_encountered, new_added, attempt, backoff, sleeps, response,
                   throttles, ret_records, ret_metadata, prev_records, offered,
                   repeats, calls, last_raw, requests, backed_off, cut_short>>

\* One pass of the while loop of get_trade_history after the request (lines 100-139)
ProcessTrades ==
    /\ pc = "process" /\ dtype = "trades"
    /\ IF Malformed(response) \/ response.records = <<>>
       THEN /\ Break
            /\ UNCHANGED <<stop_at_trade_id, min_timestamp, all_records, seen_ids,
                           latest_trade_id, first_batch_processed, total_expected,
                           stop_encountered, new_added, prev_records, offered,
                           repeats>>
       ELSE LET s == ScanTrades(response.records, 1, stop_at_trade_id,
                                Scan0(all_records, seen_ids))
            IN /\ latest_trade_id' = IF first_batch_processed THEN latest_trade_id
                                     ELSE FirstKey(response.records)
               /\ total_expected' = IF first_batch_processed THEN total_expected
                                    ELSE response.count
               /\ first_batch_processed' = TRUE
               /\ prev_records' = all_records
               /\ all_records' = s.all
               /\ seen_ids' = s.seen
               /\ new_added' = s.added
               /\ stop_encountered' = s.stop
               /\ offered' = offered \cup OfferedTrades(response.records, stop_at_trade_id)
               /\ repeats' = repeats +
                     Cardinality(offered \cap OfferedTrades(response.records,
                                                           stop_at_trade_id))
               /\ IF TradeLoopBreaks(s)
                  THEN Break
                  ELSE NextRequest
               /\ UNCHANGED <<stop_at_trade_id, min_timestamp>>
    /\ UNCHANGED <<dtype, manual_jobs, trigger_status, saving, caller, store_faults,
                   upstream, metadata_collection, records_collection, run,
                   ret_records, ret_metadata, requests, store_reached, cut_short>>

\* One pass of the while loop of get_staking_rewards after the request (lines 215-251)
ProcessRewards ==
    /\ pc = "process" /\ dtype = "rewards"
    /\ IF Malformed(response) \/ response.records = <<>>
       THEN /\ Break
            /\ UNCHANGED <<stop_at_trade_id, min_timestamp, all_records, seen_ids,
                           latest_trade_id, first_batch_processed, total_expected,
                           stop_encountered, new_added, prev_records, offered,
                           repeats>>
       ELSE LET s == ScanRewards(StakingOnly(response.records), 1, min_timestamp,
                                 Scan0(all_records, seen_ids))
            IN IF s.raised
               THEN LET handled == BeforeRaise(response.records, min_timestamp)
                    IN /\ pc' = "raised"
                       /\ CallReturned
                       /\ prev_records' = all_records
                       /\ all_records' = s.all
                       /\ seen_ids' = s.seen
                       /\ new_added' = s.added
                       /\ offered' = offered \cup OfferedRewards(handled, min_timestamp)
                       /\ repeats' = repeats +
                             Cardinality(offered \cap OfferedRewards(handled,
                                                                    min_timestamp))
                       /\ UNCHANGED <<stop_at_trade_id, min_timestamp, offset, batch,
                                      latest_trade_id, first_batch_processed,
                                      total_expected, stop_encountered, response,
                                      throttles>>
               ELSE /\ prev_records' = all_records
                    /\ all_records' = s.all
                    /\ seen_ids' = s.seen
                    /\ new_added' = s.added
                    /\ offered' = offered \cup OfferedRewards(response.records, min_timestamp)
                    /\ repeats' = repeats +
                          Cardinality(offered \cap OfferedRewards(response.records,
                                                                 min_timestamp))
                    /\ IF RewardLoopBreaks(s, response.records)
                       THEN Break
                       ELSE NextRequest
                    /\ UNCHANGED <<stop_at_trade_id, min_timestamp, latest_trade_id,
                                   first_batch_processed, total_expected,
                                   stop_encountered>>
    /\ UNCHANGED <<dtype, manual_jobs, trigger_status, saving, caller, store_faults,
                   upstream, metadata_collection, records_collection, run,
                   ret_records, ret_metadata, requests, store_reached, cut_short>>

\* FINALIZE of get_trade_history (lines 141-160)
FinalizeTrades ==
    /\ pc = "finalize" /\ dtype = "trades"
    /\ IF all_records = <<>>
       THEN /\ ret_records' = <<>>
            /\ ret_metadata' = {}
            /\ pc' = "returned"
       ELSE IF ExtractRaises(all_records)
       THEN /\ pc' = "raised"
            /\ UNCHANGED <<ret_records, ret_metadata>>
       ELSE /\ ret_records' = all_records
            /\ ret_metadata' = {Metadata("trades", run,
                                         extract_record_timestamps(all_records),
                                         latest_trade_id)}
            /\ pc' = "returned"
    /\ UNCHANGED <<dtype, manual_jobs, trigger_status, saving, caller, store_faults,
                   upstream, metadata_collection, records_collection, run,
                   cut_short>>
    /\ UNCHANGED session

\* FINALIZE of get_staking_rewards (lines 253-266); its metadata has no
\* last_trade_id key, kept here as None.
FinalizeRewards ==
    /\ pc = "finalize" /\ dtype = "rewards"
    /\ IF ExtractRaises(all_records)
       THEN /\ pc' = "raised"
            /\ UNCHANGED <<ret_records, ret_metadata>>
       ELSE /\ ret_records' = all_records
            /\ ret_metadata' = {Metadata("rewards", run,
                                         extract_record_timestamps(all_records),
                                         None)}
            /\ pc' = "returned"
    /\ UNCHANGED <<dtype, manual_jobs, trigger_status, saving, caller, store_faults,
                   upstream, metadata_collection, records_collection, run,
                   cut_short>>
    /\ UNCHANGED session

ResetSession ==
    /\ stop_at_trade_id' = None
    /\ min_timestamp' = None
    /\ all_records' = <<>>
    /\ seen_ids' = {}
    /\ offset' = 0
    /\ batch' = 1
    /\ latest_trade_id' = None
    /\ first_batch_processed' = FALSE
    /\ total_expected' = None
    /\ stop_encountered' = FALSE
    /\ new_added' = 0
    /\ attempt' = 1
    /\ backoff' = initial_backoff
    /\ sleeps' = <<>>
    /\ response' = EmptyResponse
    /\ throttles' = 0
    /\ prev_records' = <<>>
    /\ offered' = {}
    /\ repeats' = 0
    /\ calls' = 0
    /\ last_raw' = EmptyResponse
    /\ requests' = 0
    /\ backed_off' = FALSE
    /\ store_reached' = TRUE

\* The run ended on an absent/malformed response after accumulating something.
EndedCutShort == Malformed(response) /\ all_records # <<>>

\* ------------------------------------- the mongodb save, call by call
\* Attributes <name>_collection that _connect sets (mongodb_client.py:31-33).
CollectionNames == {"trades", "rewards", "metadata"}
\* insert_one goes through, or raises a PyMongoError other than a duplicate key.
Faults == {"none", "pymongo"}

\* Variant: every call reports success.
store_data_always_true(name, empty, duplicate, fault) == "True"
\* store_data(collection_name, data) (mongodb_client.py:49-75): what it returns
\* for data that is empty or not, a collection name, a document whose _id is or
\* is not in the collection already, and what insert_one runs into.
store_data(name, empty, duplicate, fault) ==
    IF empty THEN "False"
    ELSE IF name \notin CollectionNames THEN "False"
    ELSE IF fault = "pymongo" THEN "False"
    ELSE IF duplicate THEN "False"
    ELSE "True"

\* The locals of the finished save are gone.
ResetSaving ==
    /\ save_pos' = 0
    /\ stored' = "none"
    /\ metadata_inserts' = 0
    /\ metadata_stored' = FALSE
    /\ store_call' = NoCall

\* save_trades / save_staking_rewards called with location "mongodb"
\* (data_handler.py:87-93, 101-107): with a client they enter the for loop,
\* without one they log the unsupported location and return. The sync has
\* returned: of its locals only the records and the metadata it returned are left.
SaveStart ==
    /\ pc = "returned"
    /\ pc' = IF mongodb_client = "none" \/ ret_records = <<>>
             THEN "saved" ELSE "save_record"
    /\ cut_short' = (cut_short \/ EndedCutShort)
    /\ ResetSession
    /\ UNCHANGED <<dtype, saving, caller, store_faults, upstream, metadata_collection,
                   records_collection, run, ret_records, ret_metadata, manual_jobs,
                   trigger_status>>

\* mongodb_client.store_data(<type>, record) (data_handler.py:90, 104)
StoreRecord ==
    /\ pc = "save_record"
    /\ \E fault \in Faults :
         LET call == [n |-> store_call.n + 1, name |-> dtype, empty |-> FALSE,
                      duplicate |-> FALSE, fault |-> fault]
             ok == store_data(call.name, call.empty, call.duplicate, call.fault)
         IN /\ store_call' = call
            /\ stored' = ok
            /\ fault = "pymongo" => store_faults < MaxFaults
            /\ store_faults' = store_faults + (IF fault = "pymongo" THEN 1 ELSE 0)
            /\ records_collection' =
                  IF ok = "True"
                  THEN insert_one(records_collection, ret_records[save_pos + 1].id)
                  ELSE records_collection
    /\ save_pos' = save_pos + 1
    /\ pc' = "save_metadata"
    /\ UNCHANGED <<dtype, upstream, metadata_collection, run, ret_records,
                   ret_metadata, manual_jobs, trigger_status, metadata_inserts,
                   metadata_stored, caller, cut_short>>
    /\ UNCHANGED session

\* mongodb_client.store_data("metadata", metadata) (data_handler.py:91, 105):
\* insert_one puts an _id into the dict it is given, so the same dict is a
\* duplicate key once it is in the collection.
StoreMetadata ==
    /\ pc = "save_metadata"
    /\ \E fault \in Faults :
         LET call == [n |-> store_call.n + 1, name |-> "metadata",
                      empty |-> (ret_metadata = {}),
                      duplicate |-> metadata_stored, fault |-> fault]
             ok == store_data(call.name, call.empty, call.duplicate, call.fault)
         IN /\ store_call' = call
            /\ stored' = ok
            /\ fault = "pymongo" => store_faults < MaxFaults
            /\ store_faults' = store_faults + (IF fault = "pymongo" THEN 1 ELSE 0)
            /\ metadata_collection' =
                  IF ok = "True"
                  THEN insert_one(metadata_collection, CHOOSE d \in ret_metadata : TRUE)
                  ELSE metadata_collection
            /\ metadata_stored' = (metadata_stored \/ ok = "True")
    /\ metadata_inserts' = metadata_inserts + 1
    /\ pc' = IF save_pos = Len(ret_records) THEN "saved" ELSE "save_record"
    /\ UNCHANGED <<dtype, upstream, records_collection, run, ret_records,
                   ret_metadata, manual_jobs, trigger_status, save_pos, caller,
                   cut_short>>
    /\ UNCHANGED session

\* save_trades / save_staking_rewards return (data_handler.py:93, 107) and the
\* run is over.
SaveEnd ==
    /\ pc = "saved"
    /\ pc' = "idle"
    /\ ret_records' = <<>>
    /\ ret_metadata' = {}
    /\ ResetSaving
    /\ UNCHANGED <<dtype, manual_jobs, trigger_status, caller, store_faults,
                   upstream, metadata_collection, records_collection, run,
                   cut_short>>
    /\ UNCHANGED session

\* An exception left the sync: the process ends and nothing is saved.
Abort ==
    /\ pc = "raised"
    /\ pc' = "idle"
    /\ ret_records' = <<>>
    /\ ret_metadata' = {}
    /\ ResetSession
    /\ UNCHANGED <<dtype, manual_jobs, trigger_status, saving, caller, store_faults,
                   upstream, metadata_collection, records_collection, run,
                   cut_short>>

\* Nothing has run yet: the stores and the exchange's listing are empty.
InitRest ==
    /\ upstream = <<>>
    /\ metadata_collection = <<>>
    /\ records_collection = <<>>
    /\ run = 0
    /\ pc = "idle"
    /\ stop_at_trade_id = None
    /\ min_timestamp = None
    /\ all_records = <<>>
    /\ seen_ids = {}
    /\ offset = 0
    /\ batch = 1
    /\ latest_trade_id = None
    /\ first_batch_processed = FALSE
    /\ total_expected = None
    /\ stop_encountered = FALSE
    /\ new_added = 0
    /\ attempt = 1
    /\ backoff = initial_backoff
    /\ sleeps = <<>>
    /\ response = EmptyResponse
    /\ throttles = 0
    /\ ret_records = <<>>
    /\ ret_metadata = {}
    /\ prev_records = <<>>
    /\ offered = {}
    /\ repeats = 0
    /\ calls = 0
    /\ last_raw = EmptyResponse
    /\ requests = 0
    /\ backed_off = FALSE
    /\ store_reached = TRUE
    /\ manual_jobs = <<>>
    /\ trigger_status = None
    /\ save_pos = 0
    /\ stored = "none"
    /\ metadata_inserts = 0
    /\ metadata_stored = FALSE
    /\ store_call = NoCall
    /\ store_faults = 0
    /\ cut_short = FALSE

\* One kind of data per behaviour, saved with location "mongodb".
Init ==
    /\ dtype \in {"trades", "rewards"}
    /\ mongodb_client = "client"
    /\ InitRest

Next ==
    \/ Arrive
    \/ StartTrades
    \/ StartRewards
    \/ Attempt
    \/ ProcessTrades
    \/ ProcessRewards
    \/ FinalizeTrades
    \/ FinalizeRewards
    \/ SaveStart
    \/ StoreRecord
    \/ StoreMetadata
    \/ SaveEnd
    \/ Abort

Spec == Init /\ [][Next]_vars

\* ------------------------------------------------------------ main (caller)
\* main() as it is written. MongoDBClient.__init__(self, logger, mongo_uri)
\* (mongodb_client.py:11) has no default for mongo_uri, and main constructs the
\* client as MongoDBClient(logger) (main.py:32).

\* A process starts main: the logger is configured (main.py:26-29).
MainStart ==
    /\ pc \in {"idle", "raised"} /\ run < MaxRuns
    /\ run' = run + 1
    /\ pc' = "main"
    /\ UNCHANGED <<dtype, manual_jobs, trigger_status, saving, caller, store_faults,
                   upstream, metadata_collection, records_collection,
                   ret_records, ret_metadata, cut_short>>
    /\ UNCHANGED session

\* mongodb_client = MongoDBClient(logger) (main.py:32) raises TypeError for the
\* missing argument: main ends before it has built the API client, sent a
\* request or touched a store.
MainConstruct ==
    /\ pc = "main"
    /\ pc' = "raised"
    /\ UNCHANGED <<dtype, manual_jobs, trigger_status, saving, caller, store_faults,
                   upstream, metadata_collection, records_collection, run,
                   ret_records, ret_metadata, cut_short>>
    /\ UNCHANGED session

NextMain ==
    \/ Arrive
    \/ MainStart
    \/ MainConstruct

\* The scheduled processes running main as written.
SpecMain == Init /\ [][NextMain]_vars

\* ------------------------------------------------- termination while saving
\* The process is killed while the mongodb branch of save_trades /
\* save_staking_rewards runs (data_handler.py:88-91, 102-105): before a
\* store_data call for a record or before the one for the metadata that follows
\* it. What the calls made so far have inserted stays in the store.
SaveKilled ==
    /\ pc \in {"save_record", "save_metadata"}
    /\ pc' = "killed"
    /\ UNCHANGED <<dtype, manual_jobs, trigger_status, saving, caller, store_faults,
                   upstream, metadata_collection, records_collection, run,
                   ret_records, ret_metadata, cut_short>>
    /\ UNCHANGED session

\* The next process starts with nothing but the stores.
Restart ==
    /\ pc = "killed"
    /\ pc' = "idle"
    /\ ret_records' = <<>>
    /\ ret_metadata' = {}
    /\ ResetSession
    /\ ResetSaving
    /\ UNCHANGED <<dtype, manual_jobs, trigger_status, caller, store_faults,
                   upstream, metadata_collection, records_collection, run,
                   cut_short>>

NextKill ==
    \/ Next
    \/ SaveKilled
    \/ Restart

\* The syncs with a process that may be terminated while it saves.
SpecKill == Init /\ [][NextKill]_vars

\* ------------------------------------------- the accumulator on any batches
\* Records an upstream may present: the same id may come back with other data.
AccRecords(dt) ==
    {[id |-> i, time |-> t, tk |-> "num", type |-> ty] :
        i \in 1..MaxAccIds, t \in {15, 20}, ty \in Types(dt)}
\* A batch is a dict: a sequence of records with distinct ids.
Batches(dt) ==
    UNION {{b \in [1..n -> AccRecords(dt)] :
               \A i, j \in 1..n : i # j => b[i].id # b[j].id} : n \in 1..MaxBatchLen}
\* A record of the batch has the id of an accumulated record and other data.
ComesBackChanged(b) ==
    \E i \in 1..Len(b) : HasKey(all_records, b[i].id) /\ b[i] \notin Range(all_records)

InitAcc ==
    /\ dtype \in {"trades", "rewards"}
    /\ upstream = <<>>
    /\ metadata_collection = <<>>
    /\ records_collection = <<>>
    /\ run = 1
    /\ pc = "accumulate"
    /\ stop_at_trade_id = None
    /\ min_timestamp = None
    /\ all_records = <<>>
    /\ seen_ids = {}
    /\ offset = 0
    /\ batch = 1
    /\ latest_trade_id = None
    /\ first_batch_processed = FALSE
    /\ total_expected = None
    /\ stop_encountered = FALSE
    /\ new_added = 0
    /\ attempt = 1
    /\ backoff = initial_backoff
    /\ sleeps = <<>>
    /\ response = EmptyResponse
    /\ throttles = 0
    /\ ret_records = <<>>
    /\ ret_metadata = {}
    /\ prev_records = <<>>
    /\ offered = {}
    /\ repeats = 0
    /\ calls = 0
    /\ last_raw = EmptyResponse
    /\ requests = 0
    /\ backed_off = FALSE
    /\ store_reached = TRUE
    /\ manual_jobs = <<>>
    /\ trigger_status = None
    /\ save_pos = 0
    /\ stored = "none"
    /\ metadata_inserts = 0
    /\ metadata_stored = FALSE
    /\ store_call = NoCall
    /\ mongodb_client = "client"
    /\ store_faults = 0
    /\ cut_short = FALSE

\* The for loop of either sync over one batch (api_client.py:119-130, 227-237),
\* without a loaded watermark.
AccumulateBatch ==
    /\ pc = "accumulate"
    /\ \E b \in Batches(dtype) :
         LET s == IF dtype = "trades"
                  THEN ScanTrades(b, 1, stop_at_trade_id, Scan0(all_records, seen_ids))
                  ELSE ScanRewards(StakingOnly(b), 1, min_timestamp,
                                   Scan0(all_records, seen_ids))
         IN /\ all_records' = s.all
            /\ seen_ids' = s.seen
            /\ new_added' = s.added
            /\ repeats' = IF ComesBackChanged(b) THEN 1 ELSE repeats
    /\ UNCHANGED <<dtype, manual_jobs, trigger_status, saving, caller, store_faults,
                   upstream, metadata_collection, records_collection, run,
                   pc, stop_at_trade_id, min_timestamp, offset, batch,
                   latest_trade_id, first_batch_processed, total_expected,
                   stop_encountered, attempt, backoff, sleeps, response, throttles,
                   ret_records, ret_metadata, prev_records, offered, calls,
                   last_raw, requests, backed_off, store_reached, cut_short>>

NextAcc == AccumulateBatch

\* The dedup accumulator fed with arbitrary batches.
SpecAccumulator == InitAcc /\ [][NextAcc]_vars

\* ------------------------------------------- a session without the store
\* Variant: a query that failed still hands over the stored documents.
QueryFailedStale(coll) == coll
\* What the watermark readers work from when self.mongodb_client is unset
\* (api_client.py:322-324, 396-398) or find_one raised and get_latest_metadata
\* returned None (mongodb_client.py:94-96): no document at all.
QueryFailed(coll) == <<>>

\* INIT of get_trade_history when the store gives no answer (lines 80-84)
StartTradesNoStore ==
    /\ pc = "idle" /\ dtype = "trades" /\ run < MaxRuns
    /\ run' = run + 1
    /\ \E last \in LastTradeIds(QueryFailed(metadata_collection)) :
          stop_at_trade_id' = last
    /\ store_reached' = FALSE
    /\ pc' = "request"
    /\ UNCHANGED <<dtype, manual_jobs, trigger_status, saving, caller, store_faults,
                   upstream, metadata_collection, records_collection,
                   min_timestamp, all_records, seen_ids, offset, batch,
                   latest_trade_id, first_batch_processed, total_expected,
                   stop_encountered, new_added, attempt, backoff, sleeps, response,
                   throttles, ret_records, ret_metadata, prev_records, offered,
                   repeats, calls, last_raw, requests, backed_off, cut_short>>

\* INIT of get_staking_rewards when the store gives no answer (lines 203-208)
StartRewardsNoStore ==
    /\ pc = "idle" /\ dtype = "rewards" /\ run < MaxRuns
    /\ run' = run + 1
    /\ \E w \in MinRewardTimestamps(QueryFailed(metadata_collection)) :
          min_timestamp' = w
    /\ store_reached' = FALSE
    /\ pc' = "request"
    /\ UNCHANGED <<dtype, manual_jobs, trigger_status, saving, caller, store_faults,
                   upstream, metadata_collection, records_collection,
                   stop_at_trade_id, all_records, seen_ids, offset, batch,
                   latest_trade_id, first_batch_processed, total_expected,
                   stop_encountered, new_added, attempt, backoff, sleeps, response,
                   throttles, ret_records, ret_metadata, prev_records, offered,
                   repeats, calls, last_raw, requests, backed_off, cut_short>>

NextStore ==
    \/ Next
    \/ StartTradesNoStore
    \/ StartRewardsNoStore

\* The process has one store client, handed to the API client and to the save
\* functions, or none (api_client.py:21-32: mongodb_client=None).
InitStore ==
    /\ dtype \in {"trades", "rewards"}
    /\ mongodb_client \in {"client", "none"}
    /\ InitRest

\* Sessions whose watermark query may fail or find no client.
SpecStore == InitStore /\ [][NextStore]_vars

\* ---------------------------------------- manual trigger (trigger/main.py)
\* Manual Jobs, created and not yet finished, up to which requests to the
\* endpoint are followed.
MaxJobs == 2

\* batch_v1.create_namespaced_job(namespace, body=job): the Job is created from
\* the CronJob's template whatever Jobs exist; its pod has not started yet.
create_namespaced_job(jobs) ==
    Append(jobs, [phase |-> "created"])

\* POST /trigger-sync (trigger/main.py:39-82): reads the CronJob, builds a Job
\* named <cronjob>-manual-<timestamp> and creates it, whatever Jobs exist or run
\* (the handler lists none and takes no lock); an ApiException or any other
\* exception (config, read, a name already taken within the second) answers
\* 500. Requests are followed while fewer than MaxJobs manual Jobs exist.
trigger_sync ==
    /\ Len(manual_jobs) < MaxJobs
    /\ \/ /\ manual_jobs' = create_namespaced_job(manual_jobs)
          /\ trigger_status' = 200
       \/ /\ trigger_status' = 500
          /\ UNCHANGED manual_jobs
    /\ UNCHANGED <<dtype, saving, caller, store_faults, upstream, metadata_collection, records_collection, run,
                   pc, ret_records, ret_metadata, cut_short>>
    /\ UNCHANGED session

\* The pod of a manual Job starts main, one more process of the program
\* (main.py:26-29).
ManualJobStart ==
    /\ run < MaxRuns
    /\ run' = run + 1
    /\ \E j \in 1..Len(manual_jobs) :
         /\ manual_jobs[j].phase = "created"
         /\ manual_jobs' = [manual_jobs EXCEPT ![j] = [phase |-> "running"]]
    /\ UNCHANGED <<dtype, saving, caller, store_faults, upstream, metadata_collection,
                   records_collection, pc, ret_records, ret_metadata, cut_short,
                   trigger_status>>
    /\ UNCHANGED session

\* What is left of a sequence when position j is taken out.
Without(q, j) == [i \in 1..(Len(q) - 1) |-> IF i < j THEN q[i] ELSE q[i + 1]]

\* The main of a manual Job gets to MongoDBClient(logger) (main.py:32), which
\* raises TypeError: the pod ends and has stored nothing.
ManualJobEnds ==
    /\ \E j \in 1..Len(manual_jobs) :
         /\ manual_jobs[j].phase = "running"
         /\ manual_jobs' = Without(manual_jobs, j)
    /\ UNCHANGED <<dtype, saving, caller, store_faults, upstream, metadata_collection,
                   records_collection, run, pc, ret_records, ret_metadata, cut_short,
                   trigger_status>>
    /\ UNCHANGED session

NextTrigger ==
    \/ NextMain
    \/ trigger_sync
    \/ ManualJobStart
    \/ ManualJobEnds

\* The scheduled processes of main.py together with the manual trigger endpoint.
SpecTrigger == Init /\ [][NextTrigger]_vars

\* ------------------------------------- the save functions on any arguments
\* A sync has returned its records, and the caller hands save_trades /
\* save_staking_rewards the returned metadata or none (the parameter's default).
InitSave ==
    /\ dtype \in {"trades", "rewards"}
    /\ upstream = <<>>
    /\ metadata_collection = <<>>
    /\ records_collection = <<>>
    /\ run = 1
    /\ pc = "returned"
    /\ stop_at_trade_id = None
    /\ min_timestamp = None
    /\ ret_records \in Batches(dtype) \cup {<<>>}
    /\ all_records = ret_records
    /\ seen_ids = Ids(ret_records)
    /\ offset = 0
    /\ batch = 1
    /\ latest_trade_id = None
    /\ first_batch_processed = FALSE
    /\ total_expected = None
    /\ stop_encountered = FALSE
    /\ new_added = 0
    /\ attempt = 1
    /\ backoff = initial_backoff
    /\ sleeps = <<>>
    /\ response = EmptyResponse
    /\ throttles = 0
    /\ ret_metadata \in
          {{}} \cup
          (IF ret_records = <<>> THEN {}
           ELSE {{Metadata(dtype, run, extract_record_timestamps(ret_records),
                           IF dtype = "trades" THEN FirstKey(ret_records)
                           ELSE None)}})
    /\ prev_records = <<>>
    /\ offered = Ids(ret_records)
    /\ repeats = 0
    /\ calls = 0
    /\ last_raw = EmptyResponse
    /\ requests = 0
    /\ backed_off = FALSE
    /\ store_reached = TRUE
    /\ manual_jobs = <<>>
    /\ trigger_status = None
    /\ save_pos = 0
    /\ stored = "none"
    /\ metadata_inserts = 0
    /\ metadata_stored = FALSE
    /\ store_call = NoCall
    /\ mongodb_client \in {"client", "none"}
    /\ store_faults = 0
    /\ cut_short = FALSE

\* metadata = {"data_type": ..., "timestamp": int(time.time())} (main.py:47, 61),
\* the document main's text builds for the save functions: the keys it lacks
\* read as None through dict.get and sort as null.
MainMetadata(dt, now) ==
    [data_type |-> dt, timestamp |-> now,
     record_timestamp_start |-> None, record_timestamp_end |-> None,
     last_trade_id |-> None]

\* store_data called by another caller once the save is over, with any
\* collection name and a new document or none.
StoreDirect ==
    /\ pc = "saved" /\ mongodb_client = "client"
    /\ \E name \in {dtype, "metadata", "asset_pairs"}, empty \in BOOLEAN,
          fault \in Faults :
         LET call == [n |-> store_call.n + 1, name |-> name, empty |-> empty,
                      duplicate |-> FALSE, fault |-> fault]
             ok == store_data(call.name, call.empty, call.duplicate, call.fault)
         IN /\ store_call' = call
            /\ stored' = ok
            /\ fault = "pymongo" => store_faults < MaxFaults
            /\ store_faults' = store_faults + (IF fault = "pymongo" THEN 1 ELSE 0)
            /\ records_collection' =
                  IF ok = "True" /\ name = dtype
                  THEN insert_one(records_collection, None)
                  ELSE records_collection
            /\ metadata_collection' =
                  IF ok = "True" /\ name = "metadata"
                  THEN insert_one(metadata_collection, MainMetadata(dtype, run))
                  ELSE metadata_collection
    /\ pc' = "stored"
    /\ UNCHANGED <<dtype, upstream, run, ret_records, ret_metadata, manual_jobs,
                   trigger_status, save_pos, metadata_inserts, metadata_stored,
                   caller, cut_short>>
    /\ UNCHANGED session

NextSave ==
    \/ SaveStart
    \/ StoreRecord
    \/ StoreMetadata
    \/ StoreDirect

\* The mongodb branch of save_trades / save_staking_rewards with a store that
\* may fail.
SpecSave == InitSave /\ [][NextSave]_vars

\* ================================================================ claims
\* id is listed after t in the newest-first history: chronologically older.
OlderThan(hist, id, t) ==
    \E i, j \in 1..Len(hist) : hist[i].id = id /\ hist[j].id = t /\ i > j

\* C1 Resume correctness: in a trade sync started with the stored watermark
\* last_trade_id = T, neither the accumulator nor the returned set ever holds T
\* or a trade listed after T (older) in the newest-first upstream history.
C1_ResumeCorrectness ==
    (dtype = "trades" /\ stop_at_trade_id # None) =>
        \A r \in Range(all_records) \cup Range(ret_records) :
            /\ r.id # stop_at_trade_id
            /\ ~OlderThan(upstream, r.id, stop_at_trade_id)
\* A resumed trade sync met T with older trades behind it and returned newer ones.
C1_Witness ==
    /\ pc = "returned" /\ dtype = "trades"
    /\ stop_at_trade_id # None /\ stop_encountered
    /\ ret_records # <<>>
    /\ \E r \in Range(upstream) : OlderThan(upstream, r.id, stop_at_trade_id)

StopPos(trades, stop_id) == CHOOSE k \in 1..Len(trades) : trades[k].id = stop_id
\* Where a process is while save_trades / save_staking_rewards runs.
SaveStates == {"save_record", "save_metadata", "saved"}
\* C2 Mid-page stop: when the stop identifier is at position k of a trade batch,
\* the accumulator holds exactly what it held before the batch plus the records at
\* positions 1..k-1, in that order; the stop record and the later records of the
\* batch are not in it; and the session issues no further batch request.
C2_MidPageStop ==
    /\ stop_encountered => pc \in {"finalize", "returned", "raised"} \cup SaveStates
    /\ (pc = "finalize" /\ stop_encountered) =>
         LET k == StopPos(response.records, stop_at_trade_id)
             prefix == SubSeq(response.records, 1, k - 1)
         IN /\ all_records =
                  prev_records \o SelectSeq(prefix, LAMBDA r : ~HasKey(prev_records, r.id))
            /\ \A i \in k..Len(response.records) :
                  ~HasKey(all_records, response.records[i].id)
\* The stop identifier was met mid-page, after a record that was accumulated and
\* before one that was not.
C2_Witness ==
    /\ pc = "finalize" /\ stop_encountered
    /\ LET k == StopPos(response.records, stop_at_trade_id)
       IN k > 1 /\ k < Len(response.records)

\* C3 No duplicates across runs: with every run's returned records and metadata
\* persisted before the next run starts, no upstream record id is returned by two
\* runs, so no id is stored twice (one run never returns an id twice).
C3_NoDuplicatesAcrossRuns ==
    store_faults = 0 =>
        \A i, j \in 1..Len(records_collection) :
            i # j => records_collection[i] # records_collection[j]

\* C4 No data loss after a cut-short run: once a trade sync that ended on an
\* absent/malformed response was persisted, a later trade sync that ends normally
\* (empty page or stop identifier) leaves no upstream trade unretrieved that is
\* older than a trade already stored.
C4_NoLossAfterCutShort ==
    (/\ dtype = "trades" /\ pc = "returned" /\ cut_short /\ ~Malformed(response)
     /\ store_faults = 0) =>
        \A r \in Range(upstream) :
            (\E k \in Range(records_collection) : OlderThan(upstream, r.id, k)) =>
                r.id \in Range(records_collection) \cup Ids(ret_records)

\* C5 Dedup: whatever ids the batches of a session repeat, the accumulator holds
\* each offered id exactly once: its keys and the seen set are the set of ids
\* offered, its size is their number, and it is what the sync returns.
C5_Dedup ==
    /\ Len(all_records) = Cardinality(offered)
    /\ Ids(all_records) = offered
    /\ seen_ids = offered
    /\ pc = "returned" => ret_records = all_records
\* A session returned after a batch repeated an id of an earlier batch.
C5_Witness ==
    pc = "returned" /\ repeats > 0 /\ Len(ret_records) > 1

\* [2^1, ..., 2^n]
Doubling(n) == [i \in 1..n |-> 2 ^ i]
\* The raw response reports a rate-limit error.
RateLimitError(resp) == "EAPI:Rate limit exceeded" \in resp.error

\* C6 Backoff bound: when every attempt of one backoff call was rate-limited,
\* exactly 5 requests were made, the delays slept are 2, 4, 8, 16, 32 in that
\* order, and the call returns the empty response; no call makes more requests.
C6_BackoffBound ==
    /\ calls <= 5
    /\ (pc = "process" /\ Len(sleeps) = calls) =>
          /\ calls = 5
          /\ sleeps = <<2, 4, 8, 16, 32>>
          /\ response = EmptyResponse
\* A backoff call returned after all its attempts were rate-limited.
C6_Witness ==
    pc = "process" /\ Len(sleeps) = calls /\ RateLimitError(last_raw)

\* C7 The executor returns the first response that is not rate-limited unchanged
\* and at once: it asks again only after a rate-limit error, and when it returns
\* after k < 5 rate-limited attempts it has made k+1 requests, slept 2, ..., 2^k,
\* and hands back the last raw response (zero sleeps for k = 0).
C7_FirstOtherResponseReturned ==
    /\ (pc = "request" /\ calls > 0) => RateLimitError(last_raw)
    /\ (pc = "process" /\ ~RateLimitError(last_raw)) =>
          /\ response = last_raw
          /\ calls = Len(sleeps) + 1
          /\ sleeps = Doubling(calls - 1)
\* A non-rate-limit error was returned after two rate-limited attempts.
C7_Witness ==
    /\ pc = "process"
    /\ response = ErrorResponse("EGeneral:Internal error")
    /\ Len(sleeps) = 2

\* The metadata a sync produced (none for the empty dict).
Produced == IF pc = "returned" THEN ret_metadata ELSE {}
\* C8 (as claimed) Monotonic watermark: in every metadata produced,
\* record_timestamp_start <= record_timestamp_end, and both are None iff the
\* accumulated record set is empty.
C8_Original ==
    \A d \in Produced :
        /\ d.record_timestamp_start <= d.record_timestamp_end
        /\ (d.record_timestamp_start = None /\ d.record_timestamp_end = None)
              <=> (all_records = <<>>)
\* C8 (amended) In every metadata produced, start and end are None together,
\* start <= end when they are not, and they are None iff no accumulated record
\* carries a time field (in particular when the set is empty).
C8_MonotonicWatermark ==
    \A d \in Produced :
        /\ (d.record_timestamp_start = None) <=> (d.record_timestamp_end = None)
        /\ d.record_timestamp_start # None =>
              /\ 0 <= d.record_timestamp_start
              /\ d.record_timestamp_start <= d.record_timestamp_end
        /\ (d.record_timestamp_start = None) <=> (Timed(all_records) = {})
\* Metadata was produced for a non-empty record set in which no record has a time
\* field: start and end are None.
C8_Witness ==
    /\ pc = "returned" /\ all_records # <<>>
    /\ \E d \in ret_metadata : d.record_timestamp_start = None

\* C9 Empty result writes no watermark: a sync of either type whose accumulated
\* set is empty at FINALIZE returns empty records and empty metadata.
C9_EmptyResultNoWatermark ==
    (pc = "returned" /\ all_records = <<>>) =>
        (ret_records = <<>> /\ ret_metadata = {})

\* The loop ended on an empty page, every earlier page being well-formed.
EndedOnEmptyPage == response.result /\ response.records = <<>>
\* C10 Full first sync: a trade sync without prior watermark whose pages held
\* distinct trades and were followed by an empty page returns every trade of
\* those pages, with record_timestamp_start/end the minimum/maximum of their
\* time values in whole seconds.
C10_FullFirstSync ==
    (/\ dtype = "trades" /\ pc \in {"returned", "raised"}
     /\ stop_at_trade_id = None /\ EndedOnEmptyPage
     /\ repeats = 0 /\ offered # {}
     /\ \A r \in Range(all_records) : HasTime(r)) =>
        /\ pc = "returned"
        /\ Ids(ret_records) = offered
        /\ \E d \in ret_metadata :
              /\ d.record_timestamp_start = MinOf({r.time : r \in Range(all_records)}) \div 10
              /\ d.record_timestamp_end = MaxOf({r.time : r \in Range(all_records)}) \div 10

\* The stored trade watermarks with the greatest record_timestamp_end.
NewestTradeDocs ==
    {d \in OfType(metadata_collection, "trades") :
        \A e \in OfType(metadata_collection, "trades") :
            e.record_timestamp_end <= d.record_timestamp_end}
\* C11 Watermark identifier hand-over: the metadata a trade sync returns carries
\* as last_trade_id the id of the first record of the first non-empty batch of
\* the run (the first record the run accumulated; when the run stopped in its
\* first batch, the head of that batch), and a run that loaded a stored trade
\* watermark uses exactly that document's last_trade_id as its stop identifier.
C11_WatermarkHandOver ==
    /\ \A d \in Produced :
          dtype = "trades" =>
              /\ d.last_trade_id = ret_records[1].id
              /\ (batch = 1 /\ response.records # <<>>) =>
                     d.last_trade_id = response.records[1].id
    /\ (dtype = "trades" /\ pc \notin {"idle"} \cup SaveStates) =>
          IF OfType(metadata_collection, "trades") = {}
          THEN stop_at_trade_id = None
          ELSE /\ stop_at_trade_id # None
               /\ \E d \in NewestTradeDocs : stop_at_trade_id = d.last_trade_id
\* A resumed trade sync returned several records and a watermark whose
\* last_trade_id is newer than the stop identifier it had loaded.
C11_Witness ==
    /\ pc = "returned" /\ dtype = "trades"
    /\ stop_at_trade_id # None
    /\ Len(ret_records) > 1
    /\ \E d \in ret_metadata :
          d.last_trade_id # stop_at_trade_id /\ d.last_trade_id = upstream[1].id

\* C12 Stalled-pagination guard for trades: a trade batch that is not empty and
\* adds zero new records ends pagination, so a further batch request of a trade
\* sync only ever follows a batch that added at least one record.
C12_StalledPaginationGuard ==
    (dtype = "trades" /\ pc = "request" /\ batch > 1) => new_added > 0

\* C13 Offset-total stop: once the first page of a trade sync has reported the
\* total count, no batch request is issued with an offset greater than or equal
\* to that total.
C13_OffsetBelowTotal ==
    (dtype = "trades" /\ first_batch_processed /\ calls > 0) =>
        offset < total_expected

\* The while loop was left on an absent or malformed batch response.
EndedOnMalformed ==
    /\ Malformed(response)
    /\ \/ pc \in {"finalize", "returned"}
       \/ pc = "raised" /\ calls = 0
\* The metadata the sync derives from what it accumulated.
DerivedMetadata ==
    IF dtype = "trades" /\ all_records = <<>> THEN {}
    ELSE {Metadata(dtype, run, extract_record_timestamps(all_records),
                   IF dtype = "trades" THEN latest_trade_id ELSE None)}
\* C14 Graceful stop on an absent or malformed batch response: the response ends
\* pagination with no further request (as many requests as batches, one throttle
\* pause less), and the sync does not raise but returns every record accumulated
\* in the earlier batches together with the metadata derived from them.
C14_MalformedResponseStops ==
    EndedOnMalformed =>
        /\ requests = batch /\ throttles = batch - 1
        /\ pc # "raised"
        /\ pc = "returned" =>
              /\ ret_records = all_records
              /\ ret_metadata = DerivedMetadata

\* An exception left the sync while a batch request was being made.
RaisedInRequest == pc = "raised" /\ calls > 0
\* C15 No exception leaves the pagination loop: whatever goes wrong with a batch
\* request (transport exception, unparsable body, error response), the request
\* executor hands a response to the loop, which stops and lets the sync return
\* what it gathered; the sync never ends in an exception raised by a request.
C15_NoExceptionLeavesLoop == ~RaisedInRequest

\* An exception left the for loop over the entries of a batch.
RaisedInBatch == pc = "raised" /\ calls = 0 /\ ~ExtractRaises(all_records)
\* C16 A record without a time field causes no error: in both syncs, with or
\* without a loaded watermark, a batch holding such a record is processed
\* without an exception (the record is kept and only left out of the timestamp
\* range).
C16_MissingTimeTolerated ==
    RaisedInBatch => \A r \in Range(response.records) : HasTime(r)

\* C17 Throttle ordering: the session has paused for the fixed throttle exactly
\* once between any two consecutive batch requests, whatever backoff sleeps the
\* requests held: before a request starts there are as many pauses as requests
\* made, afterwards one less, and so too once a stop condition has fired (no
\* pause follows the last batch).
C17_ThrottleOrdering ==
    throttles = IF (pc = "request" /\ calls = 0) \/ requests = 0
                THEN requests
                ELSE requests - 1
\* A stop condition fired after three batch requests, two pauses between them.
C17_Witness ==
    pc = "finalize" /\ requests = 3 /\ throttles = 2 /\ all_records # <<>>

\* The watermark the most recent persisted sync of the record type appended.
MostRecentWatermark ==
    LET idx == {i \in 1..Len(metadata_collection) :
                   metadata_collection[i].data_type = dtype}
    IN metadata_collection[MaxOf(idx)]
\* C18 Most-recent watermark wins: whenever watermarks of the record type are
\* stored, the document the most recent sync appended is the one (or, among
\* documents the sort does not tell apart, one of those) that get_latest_metadata
\* hands to INIT of the next sync; an older document never outranks it.
C18_MostRecentWatermarkWins ==
    OfType(metadata_collection, dtype) # {} =>
        MostRecentWatermark \in get_latest_metadata(metadata_collection, dtype)

\* A process of main has ended. main as written ends in MainConstruct.
MainEnded == pc = "raised"
C20_WatermarkAfterRecords ==
    (pc = "killed" /\ store_faults = 0) =>
        \A d \in ret_metadata :
            d \in Range(metadata_collection) =>
                Ids(ret_records) \subseteq Range(records_collection)

\* C21 Record store idempotence: whatever was saved, also a record fetched again
\* by a later run, the record store holds at most one document per upstream
\* record id.
C21_OneDocumentPerRecord ==
    Cardinality(Range(records_collection)) = Len(records_collection)

\* a is an initial segment of b.
IsPrefix(a, b) == Len(a) <= Len(b) /\ SubSeq(b, 1, Len(a)) = a
\* C22 Append-only store: no step of a sync or of a save changes or removes a
\* document already in the record collection or in the metadata collection;
\* every write adds documents after those present.
C22_AppendOnly ==
    [][/\ IsPrefix(records_collection, records_collection')
       /\ IsPrefix(metadata_collection, metadata_collection')]_vars
\* Two runs were saved: the store holds both watermarks and their records.
C22_Witness ==
    /\ Len(metadata_collection) = 2
    /\ Len(records_collection) >= 2
    /\ metadata_collection[1].timestamp = 1
    /\ metadata_collection[2].timestamp = 2

\* The watermark deriver failed: FINALIZE raised on the accumulated records.
DeriverRaised == pc = "raised" /\ calls = 0 /\ ExtractRaises(all_records)
\* The time values of the accumulated records, truncated to whole seconds.
Truncated == {r.time \div 10 : r \in Timed(all_records)}
\* C24 Integer coercion: the watermark deriver never fails on a time value that
\* is an integer, a float or a floating-point string, and the range it derives
\* is the minimum and maximum of the time values with their fractional part cut.
C24_CoercionTruncates ==
    /\ ~DeriverRaised
    /\ \A d \in Produced :
          Truncated # {} =>
              /\ d.record_timestamp_start = MinOf(Truncated)
              /\ d.record_timestamp_end = MaxOf(Truncated)

\* The identifier watermark of a metadata document: last_trade_id for trades,
\* last_reward_id for rewards; None when the document has no such key.
LastId(d) == d.last_trade_id
\* C25 Identifier watermark for rewards: the metadata of a reward run that
\* returns records holds as last_reward_id the id of the first record of the
\* run's first batch (the first record it accumulated).
C25_RewardIdWatermark ==
    \A d \in Produced :
        (dtype = "rewards" /\ ret_records # <<>>) => LastId(d) = ret_records[1].id

\* C27 Stalled-pagination guard for rewards: a reward batch that adds no new
\* reward ends pagination, so a further request only follows a batch that added
\* one: the number of batches never exceeds the number of accumulated ids by
\* more than one, and those are ids of the upstream, which bounds the loop.
C27_RewardStallGuard ==
    dtype = "rewards" =>
        /\ (pc = "request" /\ batch > 1) => new_added > 0
        /\ batch <= Len(all_records) + 1
        /\ Ids(all_records) \subseteq Ids(upstream)
\* A full page of ledger entries added nothing and the loop was left.
C27_Witness ==
    /\ dtype = "rewards" /\ pc = "finalize"
    /\ ~Malformed(response) /\ Len(response.records) = PageSize
    /\ new_added = 0

\* The last response was a page of fewer entries than the page size.
ShortPage ==
    /\ ~Malformed(response)
    /\ response.records # <<>> /\ Len(response.records) < PageSize
\* C28 Final-batch stop for rewards: when a reward page holds fewer entries
\* than the page size, handling it accumulates its records (the staking entries
\* the watermark does not filter) and is followed by no further batch request.
C28_FinalBatchStop ==
    [][(dtype = "rewards" /\ pc = "process" /\ ShortPage) =>
          /\ pc' \in {"finalize", "raised"}
          /\ pc' = "finalize" =>
                OfferedRewards(response.records, min_timestamp)
                    \subseteq Ids(all_records')]_vars
\* A short page added rewards and the loop was left on it.
C28_Witness ==
    /\ dtype = "rewards" /\ pc = "finalize"
    /\ ShortPage /\ new_added > 0
    /\ batch = 2

\* The staking entries of a page that are newer than the watermark w.
NewerStaking(entries, w) ==
    {e \in Range(entries) : e.type = "staking" /\ HasTime(e) /\ e.time > w * 10}
\* C29 Reward resume by timestamp: in a reward sync that loaded the watermark
\* record_timestamp_end = W, every reward accumulated or returned has a time
\* strictly greater than W, and every staking entry with a time greater than W
\* on a page the sync has handled is accumulated, and returned when the sync
\* returns.
C29_RewardResumeByTimestamp ==
    (dtype = "rewards" /\ Truthy(min_timestamp)) =>
        /\ \A r \in Range(all_records) \cup Range(ret_records) :
              r.time > min_timestamp * 10
        /\ (pc \in {"finalize", "returned"} /\ ~Malformed(response)) =>
              \A e \in NewerStaking(response.records, min_timestamp) :
                  HasKey(all_records, e.id)
        /\ Ids(all_records) = offered
        /\ pc = "returned" => ret_records = all_records
\* A resumed reward sync handled the whole ledger, which holds a staking entry
\* at exactly the watermark's second, and returned newer entries without it.
C29_Witness ==
    /\ dtype = "rewards" /\ pc = "returned" /\ Truthy(min_timestamp)
    /\ ret_records # <<>>
    /\ ~Malformed(response) /\ offset + PageSize >= Len(upstream)
    /\ \E e \in Range(upstream) :
          /\ e.type = "staking" /\ e.time = min_timestamp * 10
          /\ ~HasKey(ret_records, e.id)

\* C30 First-seen record wins: handling a batch only adds to the accumulator;
\* the records held keep their place and their data, also when the batch brings
\* an id again with other data, none is removed, and after the batch the set of
\* seen ids is the accumulator's key set.
C30_FirstSeenWins ==
    [][/\ IsPrefix(all_records, all_records')
       /\ seen_ids' = Ids(all_records')
       /\ Len(all_records') = Cardinality(seen_ids')]_vars
\* An id came back with other data after several records were accumulated.
C30_Witness ==
    pc = "accumulate" /\ repeats = 1 /\ Len(all_records) >= 2

\* The ids of the pages of a trade sync are all returned.
WholeHistory ==
    \A r \in Range(upstream) : r.id <= ret_records[1].id => HasKey(ret_records, r.id)
\* C26 Retrieval does not depend on persistence: a session whose watermark query
\* got no answer from the store (no client, a failed query) runs with no stop
\* identifier and no minimum timestamp, reads its pages from offset 0 in steps
\* of the page size, leaves out nothing a page offered, returns what it
\* accumulated, and a trade sync that ran to the empty page returns every
\* upstream trade up to the newest one it saw.
C26_RetrievalWithoutStore ==
    (~store_reached /\ pc # "idle") =>
        /\ stop_at_trade_id = None
        /\ min_timestamp = None
        /\ offset = (batch - 1) * PageSize
        /\ Ids(all_records) = offered
        /\ pc = "returned" => ret_records = all_records
        /\ (dtype = "trades" /\ pc = "returned" /\ EndedOnEmptyPage
                /\ ret_records # <<>>) => WholeHistory
\* A second run, the store holding a watermark and records of the first, got no
\* answer and returned records the store already holds.
C26_Witness ==
    /\ ~store_reached /\ pc = "returned" /\ dtype = "trades"
    /\ \E d \in Range(metadata_collection) : d.last_trade_id # None
    /\ EndedOnEmptyPage /\ Len(ret_records) >= 2
    /\ \E r \in Range(ret_records) : r.id \in Range(records_collection)

\* Processes that have started main for a sync and have not ended: the
\* scheduled one and the pods of manual Jobs.
RunningSyncs ==
    (IF pc = "main" THEN 1 ELSE 0)
        + Cardinality({j \in 1..Len(manual_jobs) : manual_jobs[j].phase = "running"})
SaveOver ==
    pc \in {"saved", "stored"} /\ ret_records # <<>> /\ mongodb_client = "client"
\* C31 One watermark per run: a mongodb save, through a store client, of a run
\* with N >= 1 records requests the insertion of the run's metadata document
\* exactly once.
C31_OneWatermarkRequest == SaveOver => metadata_inserts = 1

\* The step is a store_data call.
StoreDataCalled == store_call'.n # store_call.n
\* The call is one of the failure cases: empty data, a collection the client
\* does not have, a duplicate key, an error of the store.
FailureCase(c) ==
    c.empty \/ c.name \notin CollectionNames \/ c.duplicate \/ c.fault # "none"
\* C32 store_data reports failure as a value: a call returns True or False and
\* no exception leaves it; in each failure case it returns False, and then both
\* collections are as before; when it returns True exactly one document was
\* appended to the collections.
C32_StoreDataReportsFailure ==
    [][StoreDataCalled =>
          /\ stored' \in {"True", "False"}
          /\ pc' # "raised"
          /\ FailureCase(store_call') => stored' = "False"
          /\ stored' = "False" =>
                UNCHANGED <<records_collection, metadata_collection>>
          /\ stored' = "True" =>
                /\ IsPrefix(records_collection, records_collection')
                /\ IsPrefix(metadata_collection, metadata_collection')
                /\ Len(records_collection') + Len(metadata_collection')
                      = Len(records_collection) + Len(metadata_collection) + 1]_vars
\* After a save in which the metadata was a duplicate key, a call named a
\* collection the client does not have and was answered False.
C32_Witness ==
    /\ pc = "stored" /\ metadata_stored /\ metadata_inserts >= 2
    /\ store_call.name = "asset_pairs" /\ ~store_call.empty
    /\ store_call.fault = "none" /\ stored = "False"

C34_LastTradeIdReturned ==
    \A d \in ret_metadata :
        dtype = "trades" =>
            /\ HasKey(ret_records, d.last_trade_id)
            /\ d.last_trade_id = ret_records[1].id
            /\ d.last_trade_id # stop_at_trade_id
\* A trade sync that started from a stored stop identifier returned two trades
\* or more with their metadata.
C34_Witness ==
    /\ dtype = "trades" /\ pc = "returned" /\ ret_metadata # {}
    /\ stop_at_trade_id # None /\ Len(ret_records) >= 2

\* Where a process is from INIT of a sync until the sync has returned or raised.
InSession == {"request", "process", "finalize", "returned", "raised"}
\* The step starts a batch request of the session.
RequestStarted == requests' = requests + 1
\* C35 Cursor progression: the n-th batch request of a session carries offset
\* PageSize * (n - 1); within a session the offset starts at 0, never
\* decreases, moves by exactly one page when it moves, and it moves exactly
\* when a processed batch does not stop the loop.
C35_CursorProgression ==
    [][/\ RequestStarted => (offset = PageSize * requests /\ batch = requests + 1)
       /\ pc \notin InSession => offset = 0
       /\ pc' \in InSession => offset' \in {offset, offset + PageSize}
       /\ offset' = offset + PageSize <=> (pc = "process" /\ pc' = "request")]_vars
\* The third batch request of a session was answered.
C35_Witness ==
    pc = "process" /\ requests = 3 /\ batch = 3 /\ offset = 2 * PageSize

\* C36 Backoff state is per call: every batch request starts at attempt 1 with
\* a delay of initial_backoff and nothing slept, whatever earlier batch
\* requests of the session incurred; the first delay a call sleeps is
\* initial_backoff, and a call makes at most max_retries attempts.
C36_BackoffPerCall ==
    [][/\ RequestStarted =>
             (attempt = 1 /\ backoff = initial_backoff /\ sleeps = <<>> /\ calls = 0)
       /\ sleeps' # <<>> => sleeps'[1] = initial_backoff
       /\ calls' <= max_retries /\ attempt' <= max_retries]_vars
\* After an earlier batch request of the session had slept, a later one used
\* its whole budget, starting from the first delay.
C36_Witness ==
    /\ backed_off /\ requests >= 2 /\ pc = "process"
    /\ calls = max_retries /\ Len(sleeps) = max_retries
    /\ sleeps[1] = initial_backoff

\* C37 The reward sync accumulates and returns only ledger entries of type
\* staking, while the final-batch check counts every entry of the page: the
\* loop goes on to the next page only after a page of PageSize entries, and
\* after such a page it stops only if the page added no new reward.
C37_StakingOnly ==
    [][dtype = "rewards" =>
          /\ \A r \in Range(all_records') : r.type = "staking"
          /\ \A r \in Range(ret_records') : r.type = "staking"
          /\ (pc = "process" /\ pc' = "request") =>
                Len(response.records) = PageSize
          /\ (pc = "process" /\ pc' = "finalize" /\ ~Malformed(response)
                /\ Len(response.records) = PageSize) => new_added' = 0]_vars
\* The first page held an entry of another type, which was left out, and fewer
\* than PageSize rewards; the sync went on to a second page.
C37_Witness ==
    /\ dtype = "rewards" /\ batch = 2 /\ min_timestamp = None
    /\ all_records # <<>> /\ Len(all_records) < PageSize
    /\ \E r \in Range(upstream) : r.type = "other" /\ ~HasKey(all_records, r.id)

====
